---- MODULE Spec2Model ----
(***************************************************************************)
(* The EMS core of piker (src/piker/_ems.py): the client-side OrderBook    *)
(* and its local command queue, the forwarding task send_order_cmds, the   *)
(* alert loop of spawn_router_stream_alerts, the router loop               *)
(* stream_and_route, the per-(broker, symbol) feed worker                  *)
(* exec_orders, the predicate factory mk_check and the process-wide        *)
(* execution book (_ExecBook: orders, lasts).                              *)
(*                                                                         *)
(* Tasks are trio tasks: a task runs without interruption between two      *)
(* awaits, so one action is the code between two awaits of one task.  An   *)
(* ``await ctx.send_yield(msg)`` is a scheduling point at which the        *)
(* message has not necessarily left yet: the task parks with the message   *)
(* still to be sent, and the send is the first thing its next step does.   *)
(* (The run in which the message leaves before any other task runs is the  *)
(* interleaving in which that next step follows at once.)                  *)
(***************************************************************************)
EXTENDS Integers, Sequences, FiniteSets, TLC

----------------------------------------------------------------------------
(* Bounds of the model. *)

\* commands submitted by the clients, over all sessions
MaxCmds == 2
\* ticks delivered by the feeds, over all workers
MaxTicks == 2
\* ticks in one quote batch
MaxBatch == 2

----------------------------------------------------------------------------
(* Values. *)

\* float('nan'): the float for which every comparison is false
NaN == -999

\* trio.open_memory_channel(100)
QueueSize == 100

\* feed.shm._last.value, the index of the feed's shared price buffer; the
\* buffer belongs to the data layer and is held fixed here
ShmLast == 1

\* what dict.get() and a function without a return statement give
None == [none |-> TRUE]

\* float comparisons (IEEE: false whenever an operand is NaN)
FGe(a, b) == a # NaN /\ b # NaN /\ a >= b

FLe(a, b) == a # NaN /\ b # NaN /\ a <= b

FLt(a, b) == a # NaN /\ b # NaN /\ a < b

\* d[k] = v on a dict
Put(d, k, v) == [x \in (DOMAIN d) \cup {k} |-> IF x = k THEN v ELSE d[x]]

\* the empty dict
EmptyDict == [x \in {} |-> 0]

\* the router sessions (one per UI actor that runs stream_and_route)
Sessions == {"ui1", "ui2"}

\* Symbol objects of the client (data._source.Symbol: .key and .brokers)
SymbolB == [key |-> "X", brokers |-> <<"B">>]

SymbolIb == [key |-> "X", brokers |-> <<"ib", "B">>]

SymbolY == [key |-> "Y", brokers |-> <<"B">>]

Symbols == {SymbolB, SymbolIb}

Brokers == {"B", "ib"}

SymKeys == {"X", "Y"}

\* the (broker, symbol) keys of the execution book
Keys == Brokers \X SymKeys

\* caller-generated order ids, in the order the callers generate them
OidNames == <<"o1", "o2", "o3", "o4", "o5", "o6">>

----------------------------------------------------------------------------
(* mk_check and the predicates it returns. *)

\* a strict comparison in check_gt
CheckGtStrict(trigger_price, price) == FLt(trigger_price, price)

\* check_gt, closed over trigger_price
CheckGt(trigger_price, price) == FGe(price, trigger_price)

\* the operands of check_lt the other way round
CheckLtSwapped(trigger_price, price) == FLe(trigger_price, price)

\* check_lt, closed over trigger_price
CheckLt(trigger_price, price) == FLe(price, trigger_price)

\* calling a predicate closure pred on price
Pred(pred, price) ==
    IF pred.fn = "check_gt"
    THEN CheckGt(pred.trigger_price, price)
    ELSE CheckLt(pred.trigger_price, price)

\* the two closures handed out the other way round
mk_check_swapped(trigger_price, known_last) ==
    IF FGe(trigger_price, known_last)
    THEN [pred |-> [fn |-> "check_lt", trigger_price |-> trigger_price],
          name |-> "up"]
    ELSE IF FLe(trigger_price, known_last)
    THEN [pred |-> [fn |-> "check_gt", trigger_price |-> trigger_price],
          name |-> "down"]
    ELSE None

mk_check(trigger_price, known_last) ==
    IF FGe(trigger_price, known_last)
    THEN [pred |-> [fn |-> "check_gt", trigger_price |-> trigger_price],
          name |-> "down"]
    ELSE IF FLe(trigger_price, known_last)
    THEN [pred |-> [fn |-> "check_lt", trigger_price |-> trigger_price],
          name |-> "up"]
    ELSE None

----------------------------------------------------------------------------
VARIABLES
    sent_orders,   \* OrderBook._sent_orders of each client: oid -> cmd
    to_ems,        \* the buffer of the client's memory channel _to_ems
    cmd_stream,    \* commands yielded by send_order_cmds, on their way to the router
    lasts,         \* _ExecBook.lasts: key -> price (a dict)
    orders,        \* _ExecBook.orders: key -> list of (oid, pred, name, cmd)
    cmds,          \* the cmd dict objects the order tuples refer to, by identity
    rpc,           \* where each router loop stands
    rcmd,          \* the command each router loop is handling
    wpc,           \* where each worker (session, key) stands
    wst,           \* locals of each worker inside a quote batch
    out,           \* what each session has sent on its ctx, in order
    accepted,      \* history: the orders appended to the book, by identity
    fired,         \* history: the trigger events the workers emitted
    ticklog,       \* history: the ticks the feed of each worker delivered
    nstart,        \* history: how many exec_orders tasks were started per key
    nsub,          \* history: how many commands the clients submitted
    probe,         \* a call of mk_check and a price to try its predicate on
    raised,        \* the exceptions raised to the callers of each client's OrderBook
    seen,          \* how many events of its stream each client has handled
    confirmed_orders, \* OrderBook._confirmed_orders of each client: oid -> cmd
    upc,           \* where the alert loop of each client stands
    routed,        \* history: the commands each router loop has received
    closed,        \* whether the send end of each client's _to_ems is closed
    cancel_calls   \* history: the oids OrderBook.cancel was called with

vars == <<sent_orders, to_ems, cmd_stream, lasts, orders, cmds, rpc, rcmd,
          wpc, wst, out, accepted, fired, ticklog, nstart, nsub, probe,
          raised, seen, confirmed_orders, upc, routed, closed, cancel_calls>>

\* the state of the client's alert loop
ui_vars == <<seen, confirmed_orders, upc>>

client_vars == <<sent_orders, to_ems, cmd_stream, nsub, probe, raised, ui_vars,
                 closed, cancel_calls>>

book_vars == <<lasts, orders, cmds>>

hist_vars == <<accepted, fired, ticklog, nstart, routed>>

NoLocals == [sym |-> "", ticks |-> <<>>, snap |-> <<>>]

InitSys ==
    /\ sent_orders = [s \in Sessions |-> EmptyDict]
    /\ to_ems = [s \in Sessions |-> <<>>]
    /\ cmd_stream = [s \in Sessions |-> <<>>]
    /\ lasts = EmptyDict
    /\ orders = EmptyDict
    /\ cmds = <<>>
    /\ rpc = [s \in Sessions |-> "recv"]
    /\ rcmd = [s \in Sessions |-> None]
    /\ wpc = [s \in Sessions |-> [k \in Keys |-> "none"]]
    /\ wst = [s \in Sessions |-> [k \in Keys |-> NoLocals]]
    /\ out = [s \in Sessions |-> <<>>]
    /\ accepted = <<>>
    /\ fired = <<>>
    /\ ticklog = [s \in Sessions |-> [k \in Keys |-> <<>>]]
    /\ nstart = [k \in Keys |-> 0]
    /\ nsub = 0
    /\ raised = [s \in Sessions |-> <<>>]
    /\ seen = [s \in Sessions |-> 0]
    /\ confirmed_orders = [s \in Sessions |-> EmptyDict]
    /\ upc = [s \in Sessions |-> "stream"]
    /\ routed = [s \in Sessions |-> <<>>]
    /\ closed = [s \in Sessions |-> FALSE]
    /\ cancel_calls = [s \in Sessions |-> <<>>]

Init == InitSys /\ probe = None

----------------------------------------------------------------------------
(* The client: OrderBook and the forwarding task. *)

\* a send that lets the command go when the buffer is full, and raises nothing
SendNowaitDropping(s, cmd) ==
    /\ nsub' = nsub + 1
    /\ to_ems' = [to_ems EXCEPT ![s] =
                    IF Len(@) < QueueSize THEN Append(@, cmd) ELSE @]
    /\ raised' = raised

\* _to_ems.send_nowait(cmd): buffers cmd, or raises trio.WouldBlock when the
\* buffer already holds QueueSize commands (the buffer is then left as it is)
SendNowait(s, cmd) ==
    /\ nsub' = nsub + 1
    /\ IF Len(to_ems[s]) < QueueSize
       THEN /\ to_ems' = [to_ems EXCEPT ![s] = Append(@, cmd)]
            /\ raised' = raised
       ELSE /\ to_ems' = to_ems
            /\ raised' = [raised EXCEPT ![s] =
                             Append(@, [exc |-> "WouldBlock", oid |-> cmd.oid])]

\* OrderBook.alert(uuid, symbol, price)
Alert(s, uuid, symbol, price) ==
    LET cmd == [msg |-> "alert", price |-> price, symbol |-> symbol.key,
                brokers |-> symbol.brokers, oid |-> uuid]
    IN  /\ sent_orders' = [sent_orders EXCEPT ![s] = Put(@, uuid, cmd)]
        /\ SendNowait(s, cmd)
        /\ UNCHANGED <<cmd_stream, probe, closed, cancel_calls, ui_vars, book_vars,
                       rpc, rcmd, wpc, wst, out, hist_vars>>

\* a command of another kind put on _to_ems by the UI code that holds the
\* send channel (spawn_router_stream_alerts hands it out)
SendCmd(s, cmd) ==
    /\ SendNowait(s, cmd)
    /\ UNCHANGED <<sent_orders, cmd_stream, probe, closed, cancel_calls, ui_vars,
                   book_vars, rpc, rcmd, wpc, wst, out, hist_vars>>

\* a forwarding task that takes the newest command of the queue
SendOrderCmdsNewest(s) ==
    /\ to_ems[s] # <<>>
    /\ cmd_stream' = [cmd_stream EXCEPT ![s] = Append(@, to_ems[s][Len(to_ems[s])])]
    /\ to_ems' = [to_ems EXCEPT ![s] = SubSeq(@, 1, Len(@) - 1)]
    /\ UNCHANGED <<sent_orders, nsub, probe, closed, cancel_calls, raised, ui_vars,
                   book_vars, rpc, rcmd, wpc, wst, out, hist_vars>>

\* send_order_cmds: one turn of ``async for cmd in _from_order_book: yield cmd``
SendOrderCmds(s) ==
    /\ to_ems[s] # <<>>
    /\ cmd_stream' = [cmd_stream EXCEPT ![s] = Append(@, Head(to_ems[s]))]
    /\ to_ems' = [to_ems EXCEPT ![s] = Tail(@)]
    /\ UNCHANGED <<sent_orders, nsub, probe, closed, cancel_calls, raised, ui_vars,
                   book_vars, rpc, rcmd, wpc, wst, out, hist_vars>>

\* an on_fill that looks the uuid up with .get() and stores what it gets
OnFillLenient(s, uuid) ==
    /\ confirmed_orders' =
          [confirmed_orders EXCEPT ![s] =
              Put(@, uuid, IF uuid \in DOMAIN sent_orders[s]
                           THEN sent_orders[s][uuid] ELSE None)]
    /\ UNCHANGED <<sent_orders, to_ems, cmd_stream, nsub, probe, closed, cancel_calls,
                   raised, seen, upc, book_vars, rpc, rcmd, wpc, wst, out, hist_vars>>

\* an on_fill that moves the command out of _sent_orders (a pop)
OnFillMoving(s, uuid) ==
    /\ uuid \in DOMAIN sent_orders[s]
    /\ confirmed_orders' =
          [confirmed_orders EXCEPT ![s] = Put(@, uuid, sent_orders[s][uuid])]
    /\ sent_orders' =
          [sent_orders EXCEPT ![s] = [o \in DOMAIN @ \ {uuid} |-> @[o]]]
    /\ UNCHANGED <<to_ems, cmd_stream, nsub, probe, closed, cancel_calls, raised,
                   seen, upc, book_vars, rpc, rcmd, wpc, wst, out, hist_vars>>

\* OrderBook.on_fill(uuid): ``cmd = self._sent_orders[uuid]`` raises KeyError
\* for a uuid that is not a key of _sent_orders
OnFill(s, uuid) ==
    /\ IF uuid \in DOMAIN sent_orders[s]
       THEN /\ confirmed_orders' =
                  [confirmed_orders EXCEPT ![s] = Put(@, uuid, sent_orders[s][uuid])]
            /\ raised' = raised
       ELSE /\ confirmed_orders' = confirmed_orders
            /\ raised' = [raised EXCEPT ![s] =
                             Append(@, [exc |-> "KeyError", oid |-> uuid])]
    /\ UNCHANGED <<sent_orders, to_ems, cmd_stream, nsub, probe, closed, cancel_calls,
                   seen, upc, book_vars, rpc, rcmd, wpc, wst, out, hist_vars>>

\* OrderBook.cancel(oid): the body of the method is ``...``; a call returns
\* None and has no effect on the book or on the queue
Cancel(s, oid) ==
    /\ cancel_calls' = [cancel_calls EXCEPT ![s] = Append(@, oid)]
    /\ UNCHANGED <<sent_orders, to_ems, cmd_stream, nsub, probe, raised, ui_vars,
                   closed, book_vars, rpc, rcmd, wpc, wst, out, hist_vars>>

\* spawn_router_stream_alerts: one turn of ``async for alert in stream``, up
\* to the ``continue`` of an ack or to the await of the notifier process of
\* a trigger event.  What it calls on order_mode (commit_line, arrows.add,
\* remove_line) draws on the chart and touches no state of the OrderBook.
AlertLoop(s) ==
    /\ upc[s] = "stream"
    /\ seen[s] < Len(out[s])
    /\ seen' = [seen EXCEPT ![s] = @ + 1]
    /\ upc' = [upc EXCEPT ![s] =
                 IF out[s][seen[s] + 1].msg = "ack" THEN "stream" ELSE "notify"]
    /\ UNCHANGED <<sent_orders, to_ems, cmd_stream, nsub, probe, closed, cancel_calls,
                   raised, confirmed_orders, book_vars, rpc, rcmd, wpc, wst, out,
                   hist_vars>>

\* ``result = await trio.run_process(['notify-send', ...])`` returns
AlertNotified(s) ==
    /\ upc[s] = "notify"
    /\ upc' = [upc EXCEPT ![s] = "stream"]
    /\ UNCHANGED <<sent_orders, to_ems, cmd_stream, nsub, probe, closed, cancel_calls,
                   raised, seen, confirmed_orders, book_vars, rpc, rcmd, wpc, wst, out,
                   hist_vars>>


\* ``await trio.run_process(['notify-send', ...])`` raises (the notifier exits
\* with an error: CalledProcessError, run_process checks the exit status; or
\* it is not installed: OSError).  Nothing in spawn_router_stream_alerts
\* catches it: it leaves the ``async for alert in stream`` and the ``async
\* with tractor.open_nursery() as n``, which cancels the actor it started.
AlertNotifyFailed(s) ==
    /\ upc[s] = "notify"
    /\ upc' = [upc EXCEPT ![s] = "crashed"]
    /\ raised' = [raised EXCEPT ![s] =
                     Append(@, [exc |-> "CalledProcessError", oid |-> out[s][seen[s]].oid])]
    /\ rpc' = [rpc EXCEPT ![s] = IF @ \in {"done", "crashed"} THEN @ ELSE "cancelled"]
    /\ rcmd' = [rcmd EXCEPT ![s] = None]
    /\ UNCHANGED <<sent_orders, to_ems, cmd_stream, nsub, probe, closed, cancel_calls,
                   seen, confirmed_orders, book_vars, wpc, wst, out, hist_vars>>

----------------------------------------------------------------------------
(* The router: stream_and_route. *)

\* the last broker of the list in place of the first
KeyOfLastBroker(cmd) == <<cmd.brokers[Len(cmd.brokers)], cmd.symbol>>

\* (brokers[0], sym) of a command
KeyOf(cmd) == <<cmd.brokers[1], cmd.symbol>>

\* history: how many ticks the worker (s, k) has begun to evaluate (a worker
\* awaiting ctx.send_yield is inside the evaluation of the tick at the head
\* of its ticks, the rest of the batch is still to come)
Evaluated(s, k) ==
    Len(ticklog[s][k]) - (IF wst[s][k].ticks = <<>> THEN 0 ELSE Len(wst[s][k].ticks) - 1)

\* list.append on the bucket that dict.setdefault(key, []) returns
AppendOrder(book, key, entry) ==
    Put(book, key, Append(IF key \in DOMAIN book THEN book[key] ELSE <<>>, entry))

\* a router that seeds the last price of the key with the price asked for
RouterWritesSeed(L, cmd) == Put(L, KeyOf(cmd), cmd.price)

\* what the handling of a command writes to book.lasts: nothing (the router
\* only reads it, with .get() and with [])
RouterWrites(L, cmd) == L

\* from ``last = book.lasts[(broker, sym)]`` to the await of the ack: build the
\* predicate, append the order; unpacking the None that mk_check returns
\* raises TypeError, which ends the router and cancels its nursery
TriggerSetup(s, cmd) ==
    LET key == KeyOf(cmd)
        last == lasts[key]
        chk == mk_check(cmd.price, last)
        id == Len(cmds) + 1
        entry == [oid |-> cmd.oid, pred |-> chk.pred, name |-> chk.name, cmd |-> id]
    IN  /\ lasts' = RouterWrites(lasts, cmd)
        /\ IF chk = None
           THEN /\ rpc' = [rpc EXCEPT ![s] = "crashed"]
                /\ rcmd' = [rcmd EXCEPT ![s] = None]
                /\ UNCHANGED <<orders, cmds, accepted>>
           ELSE /\ orders' = AppendOrder(orders, key, entry)
                /\ cmds' = Append(cmds, cmd)
                /\ accepted' = Append(accepted,
                       [oid |-> cmd.oid, key |-> key, pred |-> chk.pred,
                        name |-> chk.name, last |-> last,
                        at |-> [x \in Sessions |-> Evaluated(x, key)],
                        session |-> s])
                /\ rpc' = [rpc EXCEPT ![s] = "ack"]
                /\ rcmd' = [rcmd EXCEPT ![s] = cmd]

\* the presence check left out
NeedsWorkerAlways(L, key) == TRUE

\* ``last = book.lasts.get((broker, sym))`` and ``if last is None``
NeedsWorker(L, key) == key \notin DOMAIN L

\* a router that takes up the next command while it waits for a first quote
RouterRecvEager(s) ==
    /\ rpc[s] \in {"recv", "start"}
    /\ cmd_stream[s] # <<>>
    /\ LET cmd == Head(cmd_stream[s])
           key == KeyOf(cmd)
       IN  /\ cmd_stream' = [cmd_stream EXCEPT ![s] = Tail(@)]
           /\ routed' = [routed EXCEPT ![s] = Append(@, cmd)]
           /\ IF NeedsWorker(lasts, key)
              THEN /\ rpc' = [rpc EXCEPT ![s] = "start"]
                   /\ rcmd' = [rcmd EXCEPT ![s] = cmd]
                   /\ wpc' = [wpc EXCEPT ![s][key] = "open"]
                   /\ nstart' = [nstart EXCEPT ![key] = @ + 1]
                   /\ UNCHANGED <<lasts, orders, cmds, accepted>>
              ELSE /\ TriggerSetup(s, cmd)
                   /\ UNCHANGED <<wpc, nstart>>
    /\ UNCHANGED <<sent_orders, to_ems, nsub, probe, closed, cancel_calls, raised,
                   ui_vars, wst, out, fired, ticklog>>

\* one turn of the router loop, from the arrival of a command to its first
\* await: n.start(exec_orders) when the key has no last price yet, the ack
\* otherwise.  A 'cancel' command takes the same path as any other (the
\* ``if msg == 'cancel': pass`` does not leave the loop body).
RouterRecv(s) ==
    /\ rpc[s] = "recv"
    /\ cmd_stream[s] # <<>>
    /\ LET cmd == Head(cmd_stream[s])
           key == KeyOf(cmd)
       IN  /\ cmd_stream' = [cmd_stream EXCEPT ![s] = Tail(@)]
           /\ routed' = [routed EXCEPT ![s] = Append(@, cmd)]
           /\ IF NeedsWorker(lasts, key)
              THEN /\ rpc' = [rpc EXCEPT ![s] = "start"]
                   /\ rcmd' = [rcmd EXCEPT ![s] = cmd]
                   /\ wpc' = [wpc EXCEPT ![s][key] = "open"]
                   /\ nstart' = [nstart EXCEPT ![key] = @ + 1]
                   /\ UNCHANGED <<lasts, orders, cmds, accepted>>
              ELSE /\ TriggerSetup(s, cmd)
                   /\ UNCHANGED <<wpc, nstart>>
    /\ UNCHANGED <<sent_orders, to_ems, nsub, probe, closed, cancel_calls, raised,
                   ui_vars, wst, out, fired, ticklog>>

\* n.start() returns once the worker has called task_status.started()
RouterStarted(s) ==
    /\ rpc[s] = "started"
    /\ TriggerSetup(s, rcmd[s])
    /\ UNCHANGED <<client_vars, wpc, wst, out, fired, ticklog, nstart, routed>>

\* an ack that names another oid than the command's
RouterAckOther(s) ==
    /\ rpc[s] = "ack"
    /\ out' = [out EXCEPT ![s] = Append(@, [msg |-> "ack", oid |-> OidNames[Len(OidNames)]])]
    /\ rpc' = [rpc EXCEPT ![s] = "recv"]
    /\ rcmd' = [rcmd EXCEPT ![s] = None]
    /\ UNCHANGED <<client_vars, book_vars, wpc, wst, hist_vars>>

\* await ctx.send_yield({'msg': 'ack', 'oid': oid}), then back to the top
RouterAck(s) ==
    /\ rpc[s] = "ack"
    /\ out' = [out EXCEPT ![s] = Append(@, [msg |-> "ack", oid |-> rcmd[s].oid])]
    /\ rpc' = [rpc EXCEPT ![s] = "recv"]
    /\ rcmd' = [rcmd EXCEPT ![s] = None]
    /\ UNCHANGED <<client_vars, book_vars, wpc, wst, hist_vars>>

\* the router loop is over: it has left ``async with trio.open_nursery()``
\* (done), an exception went through it (crashed), or trio.Cancelled did
Ended == {"done", "crashed", "cancelled"}

\* the cancel scope of the nursery ``n`` is cancelled: by an exception that
\* passes through ``async with trio.open_nursery() as n``, or by the
\* cancellation of a scope around it
NurseryCancelled(s) == rpc[s] \in {"crashed", "cancelled"}

\* the ``async for cmd in await portal.run(send_order_cmds)`` finds its
\* stream at its end (the queue is closed and all it held has been
\* received): the loop is left, and the end of ``async with
\* trio.open_nursery() as n`` waits for the tasks started in n
RouterStreamEnd(s) ==
    /\ rpc[s] = "recv"
    /\ closed[s]
    /\ to_ems[s] = <<>>
    /\ cmd_stream[s] = <<>>
    /\ rpc' = [rpc EXCEPT ![s] = "join"]
    /\ UNCHANGED <<client_vars, book_vars, rcmd, wpc, wst, out, hist_vars>>

\* the workers that have not returned: a nursery block is left only when
\* none of its tasks is running
Live(s) == {k \in Keys : wpc[s][k] \in {"open", "stream", "send"}}

\* the nursery block is left, and with it stream_and_route
RouterExit(s) ==
    /\ rpc[s] = "join"
    /\ Live(s) = {}
    /\ rpc' = [rpc EXCEPT ![s] = "done"]
    /\ UNCHANGED <<client_vars, book_vars, rcmd, wpc, wst, out, hist_vars>>

\* the scope that stream_and_route runs in is cancelled: trio.Cancelled is
\* raised at the await the router is parked at and passes through the nursery
ScopeCancelled(s) ==
    /\ rpc[s] \notin Ended
    /\ rpc' = [rpc EXCEPT ![s] = "cancelled"]
    /\ rcmd' = [rcmd EXCEPT ![s] = None]
    /\ UNCHANGED <<client_vars, book_vars, wpc, wst, out, hist_vars>>
----------------------------------------------------------------------------
(* The feed worker: exec_orders. *)

\* an annotation with the price asked for in place of the tick's
AnnotateAsked(cmd, name, price) ==
    [msg |-> cmd.msg, price |-> cmd.price, symbol |-> cmd.symbol,
     brokers |-> cmd.brokers, oid |-> cmd.oid,
     name |-> name, index |-> ShmLast - 1, trigger_price |-> cmd.price]

\* cmd['name'] = name; cmd['index'] = ...; cmd['trigger_price'] = price
Annotate(cmd, name, price) ==
    [msg |-> cmd.msg, price |-> cmd.price, symbol |-> cmd.symbol,
     brokers |-> cmd.brokers, oid |-> cmd.oid,
     name |-> name, index |-> ShmLast - 1, trigger_price |-> price]

\* a remove that leaves the list as it is
RemoveNothing(execs, entry) == execs

\* a remove that also drops what stands before the entry
RemoveUpTo(execs, entry) ==
    LET i == CHOOSE j \in 1..Len(execs) : execs[j].cmd = entry.cmd
    IN  SubSeq(execs, i + 1, Len(execs))

\* execs.remove(entry): drops the first element equal to entry.  Two order
\* tuples are equal only when they hold the same closure and the same cmd
\* object, that is when they are the same order.
Remove(execs, entry) ==
    LET i == CHOOSE j \in 1..Len(execs) : execs[j].cmd = entry.cmd
    IN  SubSeq(execs, 1, i - 1) \o SubSeq(execs, i + 1, Len(execs))

\* whether execs.remove(entry) finds the entry (it raises ValueError if not)
Holds(execs, entry) == \E j \in 1..Len(execs) : execs[j].cmd = entry.cmd

\* the snapshot taken back to front
SnapshotReversed(execs) == [i \in 1..Len(execs) |-> execs[Len(execs) + 1 - i]]

\* a walk that ends after the first entry
SnapshotFirstOnly(execs) == IF execs = <<>> THEN <<>> ELSE <<Head(execs)>>

\* tuple(execs): the copy of the live list that the worker iterates
Snapshot(execs) == execs

\* no tick is skipped
SkippedNever(price) == FALSE

\* ``if price < 0: continue``
Skipped(price) == FLt(price, 0)

\* the tick's price not stored
SetLastNever(L, key, price) == L

\* the last price only ever raised
SetLastMax(L, key, price) ==
    Put(L, key, IF key \in DOMAIN L /\ FLt(price, L[key]) THEN L[key] ELSE price)

\* book.lasts[(broker, symbol)] = price
SetLast(L, key, price) == Put(L, key, price)

\* the first quote not stored
StoreFirstSkipped(L, key, last) == L

\* book.lasts[(broker, symbol)] = first_quote[symbol]['last']
StoreFirst(L, key, last) == Put(L, key, last)

RECURSIVE RunTicks(_, _, _, _)
RECURSIVE RunSnap(_, _, _, _, _)

\* ``for oid, pred, name, cmd in tuple(execs)`` from the entry at the head of
\* snap on, for the tick at the head of ticks: runs up to the first entry whose
\* predicate holds (the worker then awaits ctx.send_yield), or through the
\* rest of the batch.  Gives the ticks and the snapshot entries still to do
\* and the book's last prices as written so far.
RunSnap(ticks, snap, execs, L, key) ==
    IF snap = <<>>
    THEN RunTicks(Tail(ticks), execs, L, key)
    ELSE IF Pred(Head(snap).pred, Head(ticks))
    THEN [ticks |-> ticks, snap |-> snap, lasts |-> L]
    ELSE RunSnap(ticks, Tail(snap), execs, L, key)

\* a worker that looks at the last tick of a batch only
RunTicksLastOnly(ticks, execs, L, key) ==
    IF ticks = <<>>
    THEN [ticks |-> <<>>, snap |-> <<>>, lasts |-> L]
    ELSE LET last == ticks[Len(ticks)]
         IN  IF Skipped(last)
             THEN [ticks |-> <<>>, snap |-> <<>>, lasts |-> L]
             ELSE IF execs = <<>>
             THEN [ticks |-> <<>>, snap |-> <<>>, lasts |-> SetLast(L, key, last)]
             ELSE RunSnap(<<last>>, Snapshot(execs), execs, SetLast(L, key, last), key)

\* ``for tick in quote.get('ticks', ())``: a tick below zero is skipped,
\* any other sets book.lasts[(broker, symbol)], and the orders are looked at
\* only when execs is not empty
RunTicks(ticks, execs, L, key) ==
    IF ticks = <<>>
    THEN [ticks |-> <<>>, snap |-> <<>>, lasts |-> L]
    ELSE IF Skipped(Head(ticks))
    THEN RunTicks(Tail(ticks), execs, L, key)
    ELSE IF execs = <<>>
    THEN RunTicks(Tail(ticks), execs, SetLast(L, key, Head(ticks)), key)
    ELSE RunSnap(ticks, Snapshot(execs), execs, SetLast(L, key, Head(ticks)), key)

\* book.orders.get((broker, sym)), with no bucket read as an empty one (the
\* worker tests it with ``not execs`` only)
Execs(book, key) == IF key \in DOMAIN book THEN book[key] ELSE <<>>

\* where the worker (s, k) is left by a run r of its loops over the batch of
\* symbol sym: awaiting ctx.send_yield for the order at the head of r.snap
\* (whose cmd dict it has just annotated), or awaiting the next batch; a
\* worker whose scope is cancelled gets trio.Cancelled at that await
Park(s, k, sym, r) ==
    /\ lasts' = r.lasts
    /\ IF r.snap # <<>>
       THEN cmds' = [cmds EXCEPT ![Head(r.snap).cmd] =
                        Annotate(@, Head(r.snap).name, Head(r.ticks))]
       ELSE cmds' = cmds
    /\ IF NurseryCancelled(s)'
       THEN /\ wpc' = [wpc EXCEPT ![s][k] = "cancelled"]
            /\ wst' = [wst EXCEPT ![s][k] = NoLocals]
       ELSE IF r.snap # <<>>
       THEN /\ wpc' = [wpc EXCEPT ![s][k] = "send"]
            /\ wst' = [wst EXCEPT ![s][k] =
                         [sym |-> sym, ticks |-> r.ticks, snap |-> r.snap]]
       ELSE /\ wpc' = [wpc EXCEPT ![s][k] = "stream"]
            /\ wst' = [wst EXCEPT ![s][k] = NoLocals]

\* first_quote = await feed.receive(); book.lasts[...] = first_quote[symbol]
\* ['last']; task_status.started(first_quote)
WorkerFirstQuote(s, k, last) ==
    /\ wpc[s][k] = "open"
    /\ rpc[s] = "start"
    /\ lasts' = StoreFirst(lasts, k, last)
    /\ wpc' = [wpc EXCEPT ![s][k] = "stream"]
    /\ rpc' = [rpc EXCEPT ![s] = "started"]
    /\ UNCHANGED <<client_vars, orders, cmds, rcmd, wst, out, hist_vars>>

\* one quote batch {sym: {'ticks': ticks}} arrives from the stream and is
\* worked through up to the first await
WorkerQuotes(s, k, sym, ticks) ==
    /\ wpc[s][k] = "stream"
    /\ ~NurseryCancelled(s)
    /\ ticklog' = [ticklog EXCEPT ![s][k] = @ \o ticks]
    /\ UNCHANGED <<rpc, orders>>
    /\ Park(s, k, sym,
            RunTicks(ticks, Execs(orders, <<k[1], sym>>), lasts, k))
    /\ UNCHANGED <<client_vars, rcmd, out, accepted, fired, nstart, routed>>

\* the ctx.send_yield(cmd) the worker was awaiting goes out, the order is
\* removed from the live list, and the loops go on up to the next await
WorkerSend(s, k) ==
    /\ wpc[s][k] = "send"
    /\ LET w == wst[s][k]
           key == <<k[1], w.sym>>
           entry == Head(w.snap)
           price == Head(w.ticks)
           execs == Execs(orders, key)
       IN  /\ out' = [out EXCEPT ![s] = Append(@, cmds[entry.cmd])]
           /\ fired' = Append(fired,
                  [cmd |-> entry.cmd, oid |-> entry.oid, key |-> key,
                   tick |-> Evaluated(s, k), price |-> price,
                   left |-> Len(w.ticks) - 1, session |-> s, worker |-> k])
           /\ IF Holds(execs, entry)
              THEN /\ orders' = [orders EXCEPT ![key] = Remove(execs, entry)]
                   /\ UNCHANGED rpc
                   /\ Park(s, k, w.sym,
                           RunSnap(w.ticks, Tail(w.snap), orders'[key], lasts, k))
              ELSE \* ValueError: the worker dies and takes the nursery down
                   /\ rpc' = [rpc EXCEPT ![s] = "crashed"]
                   /\ wpc' = [wpc EXCEPT ![s][k] = "crashed"]
                   /\ wst' = [wst EXCEPT ![s][k] = NoLocals]
                   /\ UNCHANGED <<orders, lasts, cmds>>
    /\ UNCHANGED <<client_vars, rcmd, accepted, ticklog, nstart, routed>>

\* a ``with stream.shield()`` that shields the task from cancellation
CancellableOutsideShield(pc) == pc = "open"

\* the awaits of exec_orders, each a checkpoint that raises trio.Cancelled
\* in a cancelled scope: the opening of the feed and its first quote, the
\* next batch of the stream (stream.shield() keeps the remote brokerd's
\* stream alive and is no cancel shield of the task), ctx.send_yield
Cancellable(pc) == pc \in {"open", "stream", "send"}

\* ``async with data.open_feed(...)`` or ``await feed.receive()`` raises: the
\* exception leaves exec_orders before task_status.started(), comes out of
\* the router's ``await n.start(...)``, which catches nothing, and passes
\* through the nursery
WorkerOpenFailed(s, k) ==
    /\ wpc[s][k] = "open"
    /\ rpc[s] = "start"
    /\ wpc' = [wpc EXCEPT ![s][k] = "failed"]
    /\ rpc' = [rpc EXCEPT ![s] = "crashed"]
    /\ rcmd' = [rcmd EXCEPT ![s] = None]
    /\ UNCHANGED <<client_vars, book_vars, wst, out, hist_vars>>

\* the feed's stream comes to its end: ``async for quotes in stream`` is
\* left, the feed is torn down and exec_orders returns; the nursery and the
\* router go on, and book.lasts and book.orders stay as they are
WorkerStreamEnd(s, k) ==
    /\ wpc[s][k] = "stream"
    /\ ~NurseryCancelled(s)
    /\ wpc' = [wpc EXCEPT ![s][k] = "returned"]
    /\ UNCHANGED <<client_vars, book_vars, rpc, rcmd, wst, out, hist_vars>>

\* trio.Cancelled reaches a worker parked at an await of a cancelled nursery
WorkerCancelled(s, k) ==
    /\ NurseryCancelled(s)
    /\ Cancellable(wpc[s][k])
    /\ wpc' = [wpc EXCEPT ![s][k] = "cancelled"]
    /\ wst' = [wst EXCEPT ![s][k] = NoLocals]
    /\ UNCHANGED <<client_vars, book_vars, rpc, rcmd, out, hist_vars>>
----------------------------------------------------------------------------
(* The system of one client session. *)

\* prices the clients ask for and the ticks of the feeds
Prices == {1, 2}

\* tick prices: a feed also delivers ticks below zero
TickPrices == Prices \cup {-1}

\* 'last' of a first quote: a feed without a last trade quotes NaN
QuotePrices == Prices \cup {NaN}

\* the quote batches over the prices P: 1..MaxBatch ticks
Batches(P) == UNION {[1..n -> P] : n \in 1..MaxBatch}

\* command kinds other than 'alert' that a client sends
OtherMsgs == {"cancel"}

MainSessions == {"ui1"}

RECURSIVE SumTicks(_)
\* the ticks delivered to the workers in W, together
SumTicks(W) ==
    IF W = {} THEN 0
    ELSE LET w == CHOOSE x \in W : TRUE
         IN  Len(ticklog[w[1]][w[2]]) + SumTicks(W \ {w})

TotalTicks == SumTicks(Sessions \X Keys)

ClientAlert ==
    /\ nsub < MaxCmds
    /\ \E s \in MainSessions, symbol \in Symbols, price \in Prices :
          Alert(s, OidNames[nsub + 1], symbol, price)

ClientSendCmd ==
    /\ nsub < MaxCmds
    /\ \E s \in MainSessions, symbol \in Symbols, price \in Prices, msg \in OtherMsgs :
          SendCmd(s, [msg |-> msg, price |-> price, symbol |-> symbol.key,
                      brokers |-> symbol.brokers, oid |-> OidNames[nsub + 1]])

Forward == \E s \in MainSessions : SendOrderCmds(s)

Recv == \E s \in MainSessions : RouterRecv(s)

Started == \E s \in MainSessions : RouterStarted(s)

Ack == \E s \in MainSessions : RouterAck(s)

FirstQuote ==
    \E s \in MainSessions, k \in Keys, last \in QuotePrices : WorkerFirstQuote(s, k, last)

Quotes ==
    \E s \in MainSessions, k \in Keys, ticks \in Batches(TickPrices) :
        /\ TotalTicks + Len(ticks) <= MaxTicks
        /\ WorkerQuotes(s, k, k[2], ticks)

Send == \E s \in MainSessions, k \in Keys : WorkerSend(s, k)

Cancelled == \E s \in MainSessions, k \in Keys : WorkerCancelled(s, k)

Next ==
    \/ ClientAlert
    \/ ClientSendCmd
    \/ Forward
    \/ Recv
    \/ Started
    \/ Ack
    \/ FirstQuote
    \/ Quotes
    \/ Send
    \/ Cancelled

Spec == Init /\ [][Next]_vars

----------------------------------------------------------------------------
(* mk_check on its own: calls over a domain of floats. *)

FloatDom == {NaN, -1, 0, 95, 99, 100, 101}

sys_vars == <<sent_orders, to_ems, cmd_stream, lasts, orders, cmds, rpc, rcmd,
              wpc, wst, out, accepted, fired, ticklog, nstart, nsub,
              raised, seen, confirmed_orders, upc, routed, closed, cancel_calls>>

\* chk = mk_check(trigger_price, known_last), and a price for chk's predicate
MkProbe(trigger_price, known_last, price) ==
    [trigger_price |-> trigger_price, known_last |-> known_last,
     price |-> price, chk |-> mk_check(trigger_price, known_last)]

MkInit ==
    /\ InitSys
    /\ \E t \in FloatDom, l \in FloatDom, p \in FloatDom : probe = MkProbe(t, l, p)

MkCheck ==
    /\ \E t \in FloatDom, l \in FloatDom : probe' = MkProbe(t, l, probe.price)
    /\ UNCHANGED sys_vars

MkEval ==
    /\ \E p \in FloatDom : probe' = MkProbe(probe.trigger_price, probe.known_last, p)
    /\ UNCHANGED sys_vars

MkNext == MkCheck \/ MkEval

MkSpec == MkInit /\ [][MkNext]_vars

----------------------------------------------------------------------------
(* The scenarios of the specification, run through the client, the router *)
(* and the worker of key ("B", "X").                                       *)

ScenKey == <<"B", "X">>

\* the client submits alerts at the prices of script, in order
ScenAlert(script) ==
    /\ nsub < Len(script)
    /\ Alert("ui1", OidNames[nsub + 1], SymbolB, script[nsub + 1])

\* the feed delivers the ticks of script, in order, in batches of any size
ScenQuotes(script) ==
    \E n \in 1..MaxBatch :
        /\ Len(ticklog["ui1"][ScenKey]) + n <= Len(script)
        /\ WorkerQuotes("ui1", ScenKey, "X",
              SubSeq(script, Len(ticklog["ui1"][ScenKey]) + 1,
                     Len(ticklog["ui1"][ScenKey]) + n))

\* triggerPrice = 100 against knownLast = 95, and ticks at 99 and 101
UpAlerts == <<100, 100>>

UpAlert == ScenAlert(UpAlerts)

UpFirstQuote == WorkerFirstQuote("ui1", ScenKey, 95)

UpQuotes ==
    \E ticks \in Batches({99, 101}) :
        /\ Len(ticklog["ui1"][ScenKey]) + Len(ticks) <= MaxTicks
        /\ WorkerQuotes("ui1", ScenKey, "X", ticks)

UpNext == UpAlert \/ Forward \/ Recv \/ Started \/ Ack \/ UpFirstQuote \/ UpQuotes \/ Send

UpSpec == Init /\ [][UpNext]_vars

\* o1 (trigger 50) and o2 (trigger 70) against last 60, ticks 65, 55, 48
TwoAlerts == <<50, 70>>

TwoTicks == <<65, 55, 48>>

TwoAlert == ScenAlert(TwoAlerts)

TwoFirstQuote == WorkerFirstQuote("ui1", ScenKey, 60)

TwoQuotes == ScenQuotes(TwoTicks)

TwoNext == TwoAlert \/ Forward \/ Recv \/ Started \/ Ack \/ TwoFirstQuote \/ TwoQuotes \/ Send

TwoSpec == Init /\ [][TwoNext]_vars

----------------------------------------------------------------------------
(* Helpers of the properties. *)

\* a == b on floats
FEq(a, b) == a # NaN /\ b # NaN /\ a = b

\* the result chk of mk_check holds a predicate and that predicate is true of price
Fires(chk, price) == chk # None /\ Pred(chk.pred, price)

\* the events on the ctx of session s that are not acks
IsTrigger(e) == e.msg # "ack"

IsAck(e, oid) == e = [msg |-> "ack", oid |-> oid]

\* a trigger event for oid has been emitted
TriggerEmitted(oid) ==
    \E s \in Sessions : \E j \in DOMAIN out[s] : IsTrigger(out[s][j]) /\ out[s][j].oid = oid

\* the places <<key, index>> of book.orders that hold the order with cmd object id
Occurs(id) ==
    UNION {{<<k, i>> : i \in {j \in DOMAIN orders[k] : orders[k][j].cmd = id}} :
           k \in DOMAIN orders}

\* the places of book.orders that hold an order with this oid
OidOccurs(oid) ==
    UNION {{<<k, i>> : i \in {j \in DOMAIN orders[k] : orders[k][j].oid = oid}} :
           k \in DOMAIN orders}

----------------------------------------------------------------------------
(* C1: single-fire.  With every oid submitted once, over any sequence of   *)
(* quote batches at most one trigger (non-ack) event carrying a given oid  *)
(* is ever emitted, also when later ticks of the same batch or of later    *)
(* batches keep satisfying its predicate.                                  *)
C1_SingleFire ==
    \A s1 \in Sessions, s2 \in Sessions :
        \A i \in DOMAIN out[s1], j \in DOMAIN out[s2] :
            (IsTrigger(out[s1][i]) /\ IsTrigger(out[s2][j])
                /\ out[s1][i].oid = out[s2][j].oid)
            => (s1 = s2 /\ i = j)

\* an order has fired, and its worker has since evaluated a tick that
\* satisfies its predicate again
C1_Witness ==
    \E n \in DOMAIN fired :
        LET f == fired[n]
        IN  /\ wpc[f.session][f.worker] = "stream"
            /\ \E j \in (f.tick + 1)..Len(ticklog[f.session][f.worker]) :
                  Pred(accepted[f.cmd].pred, ticklog[f.session][f.worker][j])

C3_AtMostOneWorker ==
    [][\A k \in Keys :
          /\ nstart'[k] <= 1
          /\ (k \in DOMAIN lasts => nstart'[k] = nstart[k])
          /\ (k \in DOMAIN orders' => nstart'[k] = 1)]_vars

\* two orders accepted on one key, whose worker was started once
C3_Witness ==
    \E i \in DOMAIN accepted, j \in DOMAIN accepted :
        i < j /\ accepted[i].key = accepted[j].key /\ nstart[accepted[i].key] = 1

(* C4: ordering.  If orders A and B are pending on the same key with A     *)
(* appended before B and one tick satisfies both predicates, the trigger   *)
(* event for A is emitted before the trigger event for B.                  *)
C4_Ordering ==
    /\ \A i \in DOMAIN fired, j \in DOMAIN fired :
          (i < j /\ fired[i].session = fired[j].session
                 /\ fired[i].worker = fired[j].worker
                 /\ fired[i].tick = fired[j].tick)
          => fired[i].cmd < fired[j].cmd
    /\ \A s \in Sessions, k \in Keys :
          wpc[s][k] = "send" =>
             LET w == wst[s][k]
                 execs == Execs(orders, <<k[1], w.sym>>)
             IN  \A i \in DOMAIN execs, j \in DOMAIN execs :
                    (i < j /\ execs[j].cmd = Head(w.snap).cmd)
                    => ~Pred(execs[i].pred, Head(w.ticks))

\* one tick has fired two orders of one key
C4_Witness ==
    \E i \in DOMAIN fired, j \in DOMAIN fired :
        /\ i < j
        /\ fired[i].session = fired[j].session
        /\ fired[i].worker = fired[j].worker
        /\ fired[i].tick = fired[j].tick
        /\ fired[i].key = fired[j].key

C6_Mapping ==
    /\ probe.chk # None
    /\ FGe(probe.trigger_price, probe.known_last) =>
          /\ probe.chk.name = "down"
          /\ Pred(probe.chk.pred, probe.price) <=> FGe(probe.price, probe.trigger_price)
    /\ FLt(probe.trigger_price, probe.known_last) =>
          /\ probe.chk.name = "up"
          /\ Pred(probe.chk.pred, probe.price) <=> FLe(probe.price, probe.trigger_price)

(* C7: the scenario triggerPrice = 100 against knownLast = 95.  As         *)
(* claimed: the order gets direction 'up' and fires on the first tick      *)
(* with price <= 100, a tick at 99 fires it and a tick at 101 does not.    *)
C7_AsClaimed ==
    \A id \in DOMAIN accepted :
        LET a == accepted[id]
        IN  (a.pred.trigger_price = 100 /\ a.last = 95) =>
               /\ a.name = "up"
               /\ Pred(a.pred, 99)
               /\ ~Pred(a.pred, 101)
               /\ \A n \in DOMAIN fired : fired[n].cmd = id => fired[n].price = 99

(* C7, amended: the order gets direction 'down' and fires on the first     *)
(* tick with price >= 100: a tick at 101 fires it, a tick at 99 does not.  *)
C7_Amended ==
    \A id \in DOMAIN accepted :
        LET a == accepted[id]
            log == ticklog[a.session][a.key]
            since == a.at[a.session]
        IN  (a.pred.trigger_price = 100 /\ a.last = 95) =>
               /\ a.name = "down"
               /\ Pred(a.pred, 100) /\ Pred(a.pred, 101) /\ ~Pred(a.pred, 99)
               /\ \A n \in DOMAIN fired :
                     fired[n].cmd = id =>
                        /\ fired[n].price = 101
                        /\ log[fired[n].tick] = 101
                        /\ \A j \in (since + 1)..(fired[n].tick - 1) : log[j] = 99
               /\ (wpc[a.session][a.key] = "stream" /\ Occurs(id) # {}) =>
                     \A j \in (since + 1)..Len(log) : log[j] = 99

\* the order built against 95 let a tick at 99 pass and fired on the tick at 101
C7_Witness ==
    \E n \in DOMAIN fired :
        LET a == accepted[fired[n].cmd]
        IN  /\ a.pred.trigger_price = 100 /\ a.last = 95 /\ a.at["ui1"] = 0
            /\ ticklog["ui1"][ScenKey] = <<99, 101>>
            /\ fired[n].tick = 2
            /\ out["ui1"][Len(out["ui1"])].trigger_price = 101

\* the scenario of C8 has run: o1 and o2 were both pending, built against
\* last 60, before the first tick, and the three ticks are worked through
TwoDone ==
    /\ Len(accepted) = 2
    /\ \A id \in 1..2 : accepted[id].last = 60 /\ accepted[id].at["ui1"] = 0
    /\ accepted[1].oid = "o1" /\ accepted[1].pred.trigger_price = 50
    /\ accepted[2].oid = "o2" /\ accepted[2].pred.trigger_price = 70
    /\ ticklog["ui1"][ScenKey] = TwoTicks
    /\ wpc["ui1"][ScenKey] = "stream"

\* the trigger events on the ctx of ui1, as <<oid, trigger_price>>
TriggersOut ==
    LET idx == {j \in DOMAIN out["ui1"] : IsTrigger(out["ui1"][j])}
    IN  {<<out["ui1"][j].oid, out["ui1"][j].trigger_price>> : j \in idx}

(* C8: the scenario of two orders on ("B", "X").  As claimed: with o1      *)
(* (trigger 50) and o2 (trigger 70) built against last 60, the ticks       *)
(* [65, 55, 48] fire o2 at the tick 55 and o1 at the tick 48, each         *)
(* exactly once, and no order fires at the tick 65.                        *)
C8_AsClaimed ==
    TwoDone =>
        /\ Len(fired) = 2
        /\ fired[1].oid = "o2" /\ fired[1].tick = 2 /\ fired[1].price = 55
        /\ fired[2].oid = "o1" /\ fired[2].tick = 3 /\ fired[2].price = 48
        /\ TriggersOut = {<<"o2", 55>>, <<"o1", 48>>}

(* C8, amended: the ticks [65, 55, 48] fire o1 at the tick 48, exactly     *)
(* once; o2 (predicate price >= 70) fires at none of them and stays        *)
(* pending; no order fires at the ticks 65 and 55.                         *)
C8_Amended ==
    TwoDone =>
        /\ Len(fired) = 1
        /\ fired[1].oid = "o1" /\ fired[1].tick = 3 /\ fired[1].price = 48
        /\ TriggersOut = {<<"o1", 48>>}
        /\ Cardinality({j \in DOMAIN out["ui1"] : IsTrigger(out["ui1"][j])}) = 1
        /\ OidOccurs("o2") = {<<ScenKey, 1>>}
        /\ OidOccurs("o1") = {}

C8_Witness == TwoDone /\ Len(fired) = 1

(* C9: order lifecycle.  With caller-unique oids, each accepted order      *)
(* appears at most once across all buckets of book.orders, it is in        *)
(* orders[(brokers[0], symbol)] from the step that accepts it until it is  *)
(* triggered, and it is never removed without a trigger event having been  *)
(* emitted for its oid.                                                    *)
C9_Lifecycle ==
    \A id \in DOMAIN accepted :
        LET a == accepted[id]
            home == KeyOf(cmds[id])
        IN  /\ Cardinality(OidOccurs(a.oid)) <= 1
            /\ IF TriggerEmitted(a.oid)
               THEN Occurs(id) = {}
               ELSE \E i \in DOMAIN Execs(orders, home) : Occurs(id) = {<<home, i>>}

\* one order has been triggered and removed while another, of another
\* bucket, is still pending
C9_Witness ==
    \E i \in DOMAIN accepted, j \in DOMAIN accepted :
        /\ TriggerEmitted(accepted[i].oid) /\ Occurs(i) = {}
        /\ Occurs(j) # {}
        /\ accepted[i].key # accepted[j].key

(* C10: a command with msg == 'cancel' is a no-op for the router: it       *)
(* appends no order to any bucket of book.orders, starts no worker, and    *)
(* changes neither book.orders nor book.lasts.                             *)
C10_CancelNoOp ==
    /\ \A id \in DOMAIN cmds : cmds[id].msg # "cancel"
    /\ \A s \in Sessions : rpc[s] \in {"start", "started"} => rcmd[s].msg # "cancel"

----------------------------------------------------------------------------
(* A client that sends a command of a kind the router has no branch for.   *)

\* the kinds of command the router loop tests for
HandledMsgs == {"alert", "cancel"}

\* kinds it does not test for (OrderBook declares buy() next to alert())
UnknownMsgs == {"buy"}

MsgSendCmd ==
    /\ nsub < MaxCmds
    /\ \E price \in Prices, msg \in UnknownMsgs :
          SendCmd("ui1", [msg |-> msg, price |-> price, symbol |-> "X",
                          brokers |-> <<"B">>, oid |-> OidNames[nsub + 1]])

MsgFirstQuote == \E last \in Prices : WorkerFirstQuote("ui1", ScenKey, last)

MsgQuotes ==
    \E ticks \in Batches(Prices) :
        /\ Len(ticklog["ui1"][ScenKey]) + Len(ticks) <= MaxTicks
        /\ WorkerQuotes("ui1", ScenKey, "X", ticks)

MsgNext ==
    MsgSendCmd \/ Forward \/ Recv \/ Started \/ Ack \/ MsgFirstQuote \/ MsgQuotes \/ Send

MsgSpec == Init /\ [][MsgNext]_vars

\* the router loop of s has finished with the i-th command it received
Handled(s, i) == i < Len(routed[s]) \/ rpc[s] = "recv"

(* C11: a command whose msg is not one the router handles is rejected with *)
(* an explicit 'unsupported command' signal to the client: it is neither   *)
(* set up as a pending trigger, nor acknowledged with an 'ack', nor        *)
(* silently ignored.                                                       *)
C11_UnknownRejected ==
    \A s \in Sessions : \A i \in DOMAIN routed[s] :
        LET cmd == routed[s][i]
        IN  cmd.msg \notin HandledMsgs =>
               /\ \A id \in DOMAIN cmds : cmds[id].oid # cmd.oid
               /\ \A j \in DOMAIN out[s] : ~IsAck(out[s][j], cmd.oid)
               /\ Handled(s, i) =>
                     \E j \in DOMAIN out[s] :
                        /\ out[s][j].oid = cmd.oid
                        /\ out[s][j].msg \notin {"ack", cmd.msg}

(* C12: baseline handshake.  For a command whose key has no last price the *)
(* router starts a worker and neither builds the predicate, nor appends    *)
(* the order, nor emits the ack before that worker has stored its first    *)
(* price: a non-empty orders[key] implies that lasts[key] is defined, and  *)
(* every ack for an order on key comes after lasts[key] was first set.     *)
C12_Handshake ==
    /\ \A k \in DOMAIN orders : orders[k] # <<>> => k \in DOMAIN lasts
    /\ \A id \in DOMAIN accepted : accepted[id].key \in DOMAIN lasts
    /\ \A s \in Sessions :
          /\ rpc[s] = "started" => KeyOf(rcmd[s]) \in DOMAIN lasts
          /\ rpc[s] = "start" =>
                /\ \A id \in DOMAIN cmds : cmds[id].oid # rcmd[s].oid
                /\ \A j \in DOMAIN out[s] : ~IsAck(out[s][j], rcmd[s].oid)
          /\ \A j \in DOMAIN out[s] :
                out[s][j].msg = "ack" =>
                   \E id \in DOMAIN accepted :
                      /\ accepted[id].oid = out[s][j].oid
                      /\ accepted[id].key \in DOMAIN lasts

\* the order that made the router start the worker of its key is pending
\* and acknowledged, built against the first price of that worker
C12_Witness ==
    \E id \in DOMAIN accepted :
        LET a == accepted[id]
        IN  /\ \A j \in DOMAIN accepted : accepted[j].key = a.key => id <= j
            /\ nstart[a.key] = 1
            /\ Occurs(id) # {}
            /\ \E j \in DOMAIN out[a.session] : IsAck(out[a.session][j], a.oid)

\* the ticks of seq that are not below zero
NotBelowZero(seq) == SelectSeq(seq, LAMBDA p : ~FLt(p, 0))

\* every tick of seq is below zero
AllBelowZero(seq) == \A i \in DOMAIN seq : FLt(seq[i], 0)

(* C13: a tick with price < 0 is silently filtered by the worker: it       *)
(* leaves lasts and orders unchanged, evaluates no predicate, emits no     *)
(* event and raises no error, and the worker goes on with the next tick:   *)
(* a batch leaves the worker and the book where the same batch without     *)
(* its ticks below zero leaves them, and a batch of such ticks only leaves *)
(* everything as it is.                                                    *)
C13_NegativeFiltered ==
    [][\A s \in Sessions, k \in Keys :
          ticklog'[s][k] # ticklog[s][k] =>
             LET b == SubSeq(ticklog'[s][k], Len(ticklog[s][k]) + 1, Len(ticklog'[s][k]))
                 r == RunTicks(NotBelowZero(b), Execs(orders, k), lasts, k)
             IN  /\ lasts' = r.lasts
                 /\ orders' = orders
                 /\ wpc'[s][k] = IF r.snap = <<>> THEN "stream" ELSE "send"
                 /\ r.snap # <<>> =>
                       /\ Head(wst'[s][k].snap) = Head(r.snap)
                       /\ Head(wst'[s][k].ticks) = Head(r.ticks)
                       /\ NotBelowZero(wst'[s][k].ticks) = r.ticks
                 /\ AllBelowZero(b) =>
                       /\ UNCHANGED <<lasts, orders, cmds, out, fired, rpc>>
                       /\ wpc'[s][k] = "stream"
                 /\ \A n \in DOMAIN fired' : ~FLt(fired'[n].price, 0)]_vars

\* a tick below zero that satisfies the predicate of a pending order has
\* gone by, the order is still pending, and the tick after it was applied
C13_Witness ==
    \E s \in Sessions, k \in Keys :
        LET log == ticklog[s][k]
        IN  /\ wpc[s][k] = "stream"
            /\ \E i \in DOMAIN log :
                  /\ FLt(log[i], 0)
                  /\ i < Len(log)
                  /\ lasts[k] = log[Len(log)]
                  /\ \E id \in DOMAIN accepted :
                        /\ accepted[id].key = k
                        /\ accepted[id].at[s] < i
                        /\ Pred(accepted[id].pred, log[i])
                        /\ Occurs(id) # {}

\* the step is the send of worker (s, k)
SendStepOf(s, k) ==
    /\ wpc[s][k] = "send"
    /\ Len(fired') = Len(fired) + 1
    /\ fired'[Len(fired')].session = s
    /\ fired'[Len(fired')].worker = k

(* C14: every tick with price >= 0 that the worker of a key processes sets *)
(* lasts[key] to the tick's price, whether or not an order is pending for  *)
(* the key, and ticks are applied in delivery order: while a tick is being *)
(* evaluated lasts[key] is its price, and once a batch is worked through   *)
(* lasts[key] is the price of the last tick of the batch that is not       *)
(* below zero.                                                             *)
C14_LastsFollowTicks ==
    [][\A s \in Sessions, k \in Keys :
          /\ ticklog'[s][k] # ticklog[s][k] =>
                LET b == SubSeq(ticklog'[s][k], Len(ticklog[s][k]) + 1,
                                Len(ticklog'[s][k]))
                    kept == NotBelowZero(b)
                IN  /\ (wpc'[s][k] = "stream" /\ kept # <<>>) =>
                          lasts'[k] = kept[Len(kept)]
                    /\ wpc'[s][k] = "send" => lasts'[k] = Head(wst'[s][k].ticks)
          /\ SendStepOf(s, k) =>
                LET kept == NotBelowZero(wst[s][k].ticks)
                IN  /\ wpc'[s][k] = "stream" => lasts'[k] = kept[Len(kept)]
                    /\ wpc'[s][k] = "send" => lasts'[k] = Head(wst'[s][k].ticks)]_vars

\* a tick was applied while no order was pending for the key: the order of
\* the key fired on an earlier tick, and lasts[key] is the later, lower one
C14_Witness ==
    \E n \in DOMAIN fired :
        LET f == fired[n]
            log == ticklog[f.session][f.worker]
        IN  /\ wpc[f.session][f.worker] = "stream"
            /\ Execs(orders, f.worker) = <<>>
            /\ f.tick < Len(log)
            /\ lasts[f.worker] = log[Len(log)]
            /\ FLt(log[Len(log)], log[f.tick])

\* the step is a step of the worker (s, k): its first quote, the arrival of
\* a quote batch, or the rest of a batch after a send
WorkerStepOf(s, k) ==
    \/ wpc[s][k] = "open" /\ wpc'[s][k] = "stream"
    \/ ticklog'[s][k] # ticklog[s][k]
    \/ SendStepOf(s, k)

\* the step is a step of the router loop of s
RouterStepOf(s) ==
    /\ rpc[s] \in {"recv", "started", "ack"}
    /\ rpc'[s] # rpc[s]
    /\ \A k \in Keys : ~SendStepOf(s, k)

\* L2 is the dict L1 but for the value of key k
SameButFor(L1, L2, k) ==
    \A k2 \in (DOMAIN L1) \cup (DOMAIN L2) :
        k2 # k => (k2 \in DOMAIN L1 /\ k2 \in DOMAIN L2 /\ L1[k2] = L2[k2])

(* C15: the router's handling of a command (predicate, append, ack) never  *)
(* writes book.lasts: lasts[key] changes only in steps of the worker of    *)
(* that key (its first quote or the arrival of ticks), never as a direct   *)
(* effect of the submission of an order.                                   *)
C15_RouterNeverWritesLasts ==
    [][/\ (\E s \in Sessions : RouterStepOf(s)) => lasts' = lasts
       /\ lasts' # lasts =>
             \E s \in Sessions, k \in Keys :
                WorkerStepOf(s, k) /\ SameButFor(lasts, lasts', k)]_vars

\* an order asking for a price other than the last price of its key has
\* been appended and acknowledged, and the last price is what it was
C15_Witness ==
    \E id \in DOMAIN accepted :
        LET a == accepted[id]
        IN  /\ a.last # cmds[id].price
            /\ lasts[a.key] = a.last
            /\ \E j \in DOMAIN out[a.session] : IsAck(out[a.session][j], a.oid)

----------------------------------------------------------------------------
(* Two symbols of one broker, and feeds whose quote batches carry either   *)
(* symbol (exec_orders takes the symbol of each entry of a batch from the  *)
(* batch: ``for sym, quote in quotes.items()``).                           *)

SymSymbols == {SymbolB, SymbolY}

SymKeysOfB == {<<"B", "X">>, <<"B", "Y">>}

SymAlert ==
    /\ nsub < MaxCmds
    /\ \E symbol \in SymSymbols, price \in Prices :
          Alert("ui1", OidNames[nsub + 1], symbol, price)

SymFirstQuote ==
    \E k \in SymKeysOfB, last \in Prices : WorkerFirstQuote("ui1", k, last)

SymQuotes ==
    \E k \in SymKeysOfB, sym \in SymKeys, ticks \in Batches(Prices) :
        /\ TotalTicks + Len(ticks) <= MaxTicks
        /\ WorkerQuotes("ui1", k, sym, ticks)

SymNext ==
    \/ SymAlert
    \/ Forward
    \/ Recv
    \/ Started
    \/ Ack
    \/ SymFirstQuote
    \/ SymQuotes
    \/ Send
    \/ Cancelled

SymSpec == Init /\ [][SymNext]_vars

(* C16: single-writer discipline.  The worker started for key (b, s)       *)
(* writes only lasts[(b, s)] and removes entries only from orders[(b, s)], *)
(* for every quote batch it receives, also one whose symbol differs from   *)
(* s; orders[key] is appended to only by the router loop; a worker step    *)
(* for one key leaves lasts and orders of every other key unchanged.       *)
C16_SingleWriter ==
    [][/\ \A s \in Sessions, k \in Keys :
             (ticklog'[s][k] # ticklog[s][k] \/ SendStepOf(s, k)) =>
                /\ SameButFor(lasts, lasts', k)
                /\ SameButFor(orders, orders', k)
                /\ \A k2 \in DOMAIN orders : Len(orders'[k2]) <= Len(orders[k2])
       /\ \A k \in DOMAIN orders' :
             (k \notin DOMAIN orders \/ Len(orders'[k]) > Len(Execs(orders, k))) =>
                \E s \in Sessions : RouterStepOf(s)]_vars

----------------------------------------------------------------------------
(* A client that submits alerts faster than send_order_cmds forwards them, *)
(* up to one more than the local queue holds.                              *)

\* the n-th alert of the client has the oid ToString(n)
QueueAlert ==
    /\ nsub <= QueueSize
    /\ Alert("ui1", ToString(nsub + 1), SymbolB, 1)

QueueNext == QueueAlert \/ Forward

QueueSpec == Init /\ [][QueueNext]_vars

\* the commands of session s that are queued, on their way, or with the router
InPipeline(s) ==
    {to_ems[s][i] : i \in DOMAIN to_ems[s]}
        \cup {cmd_stream[s][i] : i \in DOMAIN cmd_stream[s]}
        \cup {routed[s][i] : i \in DOMAIN routed[s]}

\* every command recorded in _sent_orders is in the pipeline, or its caller
\* got an exception
NoneLostSilently ==
    \A s \in Sessions : \A oid \in DOMAIN sent_orders[s] :
        \/ sent_orders[s][oid] \in InPipeline(s)
        \/ \E i \in DOMAIN raised[s] : raised[s][i].oid = oid

(* C17: client submit.  While the local queue holds fewer than its         *)
(* capacity (100) of commands, alert(oid, symbol, price) records the       *)
(* command in _sent_orders[oid] and appends it to the queue, in the one    *)
(* step of the call (it does not block); when the queue is full the call   *)
(* fails with an error the caller sees, and no command is lost without     *)
(* the caller being told.                                                  *)
C17_ClientSubmit ==
    [][/\ \A s \in Sessions :
             (nsub' = nsub + 1 /\ sent_orders'[s] # sent_orders[s]) =>
                LET oid == CHOOSE o \in DOMAIN sent_orders'[s] :
                               o \notin DOMAIN sent_orders[s]
                                  \/ sent_orders'[s][o] # sent_orders[s][o]
                    cmd == sent_orders'[s][oid]
                IN  /\ cmd.msg = "alert" /\ cmd.oid = oid
                    /\ IF Len(to_ems[s]) < 100
                       THEN /\ to_ems'[s] = Append(to_ems[s], cmd)
                            /\ raised'[s] = raised[s]
                       ELSE /\ to_ems'[s] = to_ems[s]
                            /\ raised'[s] =
                                  Append(raised[s], [exc |-> "WouldBlock", oid |-> oid])
       /\ NoneLostSilently']_vars

\* the queue is full and a further alert has failed with WouldBlock, its
\* command recorded in _sent_orders and in neither queue
C17_Witness ==
    /\ Len(to_ems["ui1"]) = 100
    /\ \E i \in DOMAIN raised["ui1"] :
          LET oid == raised["ui1"][i].oid
          IN  /\ raised["ui1"][i].exc = "WouldBlock"
              /\ oid \in DOMAIN sent_orders["ui1"]
              /\ sent_orders["ui1"][oid] \notin InPipeline("ui1")

\* the commands of session s in the order of their way: those the router
\* has received, those send_order_cmds has yielded, those still queued
PipelineSeq(s) == routed[s] \o cmd_stream[s] \o to_ems[s]

(* C18: forwarding.  Every command the client has enqueued is relayed by   *)
(* send_order_cmds to the router exactly once and the commands reach the   *)
(* router in the order of their submission; no command reaches the router  *)
(* by another path: the commands received, yielded and queued are, in this *)
(* order, the commands submitted, each once, and that sequence only grows  *)
(* at its end, by a submission.                                            *)
C18_Forwarding ==
    [][\A s \in MainSessions :
          LET old == PipelineSeq(s)
              new == PipelineSeq(s)'
          IN  /\ Len(new) = nsub' - Len(raised'[s])
              /\ \A i \in DOMAIN new :
                    /\ new[i].oid = OidNames[i]
                    /\ new[i].msg = "alert" => new[i] = sent_orders'[s][new[i].oid]
              /\ \/ new = old
                 \/ nsub' = nsub + 1 /\ Len(new) = Len(old) + 1
                                     /\ SubSeq(new, 1, Len(old)) = old
              /\ Len(routed'[s]) > Len(routed[s]) =>
                    /\ cmd_stream[s] # <<>>
                    /\ routed'[s] = Append(routed[s], Head(cmd_stream[s]))]_vars

\* two commands were in the local queue together and the router has
\* received both
C18_Witness ==
    /\ Len(routed["ui1"]) = 2
    /\ routed["ui1"][1].oid = "o1"
    /\ routed["ui1"][2].oid = "o2"
    /\ to_ems["ui1"] = <<>>
    /\ cmd_stream["ui1"] = <<>>

----------------------------------------------------------------------------
(* The client side in full: the UI submits alerts and calls on_fill on its *)
(* OrderBook, and the alert loop of spawn_router_stream_alerts handles the *)
(* events that come back.                                                  *)

UiAlert ==
    /\ nsub < MaxCmds
    /\ \E price \in Prices : Alert("ui1", OidNames[nsub + 1], SymbolB, price)

\* the UI calls on_fill, for an oid it has submitted or for another (until
\* a call has failed)
UiOnFill ==
    \E i \in 1..MaxCmds :
        /\ raised["ui1"] = <<>>
        /\ OnFill("ui1", OidNames[i])

UiAlertLoop == AlertLoop("ui1")

UiNotified == AlertNotified("ui1")

UiFirstQuote == \E last \in Prices : WorkerFirstQuote("ui1", ScenKey, last)

UiQuotes ==
    \E ticks \in Batches(Prices) :
        /\ Len(ticklog["ui1"][ScenKey]) + Len(ticks) <= MaxTicks
        /\ WorkerQuotes("ui1", ScenKey, "X", ticks)

UiNext ==
    \/ UiAlert
    \/ UiOnFill
    \/ UiAlertLoop
    \/ UiNotified
    \/ Forward
    \/ Recv
    \/ Started
    \/ Ack
    \/ UiFirstQuote
    \/ UiQuotes
    \/ Send

UiSpec == Init /\ [][UiNext]_vars

\* the alert loop of s has handled an ack for oid
AckObserved(s, oid) == \E i \in 1..seen[s] : IsAck(out[s][i], oid)

(* C19: in every reachable client state an oid is a key of                 *)
(* _confirmed_orders only if the client has observed an 'ack' event for    *)
(* that oid before.                                                        *)
C19_ConfirmedOnlyAfterAck ==
    \A s \in Sessions : \A oid \in DOMAIN confirmed_orders[s] : AckObserved(s, oid)

(* C20: when the client observes an 'ack' event for an oid it submitted,   *)
(* the command stored under _sent_orders[oid] is placed in                 *)
(* _confirmed_orders[oid]: once the ack is handled, oid is a key of        *)
(* _confirmed_orders.                                                      *)
C20_AckConfirms ==
    \A s \in Sessions : \A oid \in DOMAIN sent_orders[s] :
        AckObserved(s, oid) =>
            /\ oid \in DOMAIN confirmed_orders[s]
            /\ confirmed_orders[s][oid] = sent_orders[s][oid]

----------------------------------------------------------------------------
(* The end of a session: the client closes its queue, or the scope of the  *)
(* router is cancelled.  The tasks of one trio run are scheduled fairly:   *)
(* a task that can go on does go on.  Nothing is assumed of the client     *)
(* and of the feeds.                                                       *)

\* the send end of _to_ems is closed (the UI lets go of it): what the queue
\* holds is still delivered, then ``async for cmd in _from_order_book`` ends
CloseToEms(s) ==
    /\ ~closed[s]
    /\ closed' = [closed EXCEPT ![s] = TRUE]
    /\ UNCHANGED <<sent_orders, to_ems, cmd_stream, nsub, probe, raised, ui_vars,
                   cancel_calls, book_vars, rpc, rcmd, wpc, wst, out, hist_vars>>

EndAlert ==
    /\ nsub < MaxCmds
    /\ ~closed["ui1"]
    /\ \E symbol \in Symbols, price \in Prices :
          Alert("ui1", OidNames[nsub + 1], symbol, price)

EndClose == CloseToEms("ui1")

StreamEnd == RouterStreamEnd("ui1")

Exit == RouterExit("ui1")

EndCancel == ScopeCancelled("ui1")

EndFirstQuote == \E k \in Keys : WorkerFirstQuote("ui1", k, 1)

EndQuotes ==
    \E k \in Keys, ticks \in Batches(Prices) :
        /\ TotalTicks + Len(ticks) <= MaxTicks
        /\ WorkerQuotes("ui1", k, k[2], ticks)

\* the steps of the tasks of the router's trio run
EndTasks == Recv \/ Started \/ Ack \/ StreamEnd \/ Exit \/ Send \/ Cancelled

EndNext ==
    \/ EndAlert
    \/ EndClose
    \/ EndCancel
    \/ Forward
    \/ Recv
    \/ Started
    \/ Ack
    \/ StreamEnd
    \/ Exit
    \/ EndFirstQuote
    \/ EndQuotes
    \/ Send
    \/ Cancelled

EndSpec ==
    /\ Init
    /\ [][EndNext]_vars
    /\ WF_vars(Forward)
    /\ WF_vars(EndTasks)

(* C21: session termination.  Once the router has found its command stream *)
(* closed, it eventually is over with none of its workers running; and     *)
(* the router loop ends only by the close of the command stream or by the  *)
(* cancellation of its scope.                                              *)
C21_SessionTermination ==
    /\ \A s \in MainSessions :
          (rpc[s] = "join") ~> (rpc[s] \in Ended /\ Live(s) = {})
    /\ [][\A s \in MainSessions :
             (rpc[s] \notin Ended /\ rpc'[s] \in Ended) =>
                 \/ rpc[s] = "join" /\ closed[s]
                 \/ rpc'[s] = "cancelled"]_vars

----------------------------------------------------------------------------
(* A client that submits every alert under the same oid. *)

DupAlert ==
    /\ nsub < MaxCmds
    /\ \E price \in Prices : Alert("ui1", OidNames[1], SymbolB, price)

DupFirstQuote == \E last \in Prices : WorkerFirstQuote("ui1", ScenKey, last)

DupQuotes ==
    \E ticks \in Batches(Prices) :
        /\ Len(ticklog["ui1"][ScenKey]) + Len(ticks) <= MaxTicks
        /\ WorkerQuotes("ui1", ScenKey, "X", ticks)

DupNext ==
    DupAlert \/ Forward \/ Recv \/ Started \/ Ack \/ DupFirstQuote \/ DupQuotes \/ Send

DupSpec == Init /\ [][DupNext]_vars

(* C22: duplicate oid.  A command whose oid is that of an order still      *)
(* pending is not appended: no oid occurs twice in book.orders.            *)
C22_DuplicateRejected ==
    \A i \in 1..Len(OidNames) : Cardinality(OidOccurs(OidNames[i])) <= 1

----------------------------------------------------------------------------
(* Feeds that fail to open. *)

FailAlert ==
    /\ nsub < MaxCmds
    /\ \E symbol \in Symbols, price \in Prices :
          Alert("ui1", OidNames[nsub + 1], symbol, price)

FailFirstQuote == \E k \in Keys, last \in Prices : WorkerFirstQuote("ui1", k, last)

OpenFailed == \E k \in Keys : WorkerOpenFailed("ui1", k)

FailQuotes ==
    \E k \in Keys, ticks \in Batches(Prices) :
        /\ TotalTicks + Len(ticks) <= MaxTicks
        /\ WorkerQuotes("ui1", k, k[2], ticks)

FailNext ==
    \/ FailAlert
    \/ Forward
    \/ Recv
    \/ Started
    \/ Ack
    \/ FailFirstQuote
    \/ OpenFailed
    \/ FailQuotes
    \/ Send
    \/ Cancelled

FailSpec == Init /\ [][FailNext]_vars

\* the command the router of session s received last
LastRouted(s) == routed[s][Len(routed[s])]

(* C23: feed spawn failure.  When the worker that a command asked for has  *)
(* failed to start, the client has been sent an event about that command.  *)
C23_SpawnFailureReported ==
    \A s \in MainSessions, k \in Keys :
        wpc[s][k] = "failed" =>
            \E j \in DOMAIN out[s] : out[s][j].oid = LastRouted(s).oid

----------------------------------------------------------------------------
(* A client whose notifier can fail. *)

NotifyFailed == AlertNotifyFailed("ui1")

NotifyNext ==
    \/ UiAlert
    \/ UiAlertLoop
    \/ UiNotified
    \/ NotifyFailed
    \/ Forward
    \/ Recv
    \/ Started
    \/ Ack
    \/ UiFirstQuote
    \/ UiQuotes
    \/ Send
    \/ Cancelled

NotifySpec == Init /\ [][NotifyNext]_vars

\* the notifier has failed for an event of session s
NotifierFailed(s) ==
    \E i \in DOMAIN raised[s] : raised[s][i].exc = "CalledProcessError"

(* C24: a failure of the notifier is not fatal.  After the notifier has    *)
(* failed for a trigger event, the client's loop over its event stream is  *)
(* still running: at the stream, or notifying for a later event.           *)
C24_NotifierFailureNonFatal ==
    \A s \in MainSessions : NotifierFailed(s) => upc[s] \in {"stream", "notify"}

----------------------------------------------------------------------------
(* A client that cancels what it has submitted. *)

\* the UI calls cancel for an oid it has submitted
CancelCall ==
    \E i \in 1..nsub :
        /\ Len(cancel_calls["ui1"]) < MaxCmds
        /\ Cancel("ui1", OidNames[i])

CancelNext ==
    \/ UiAlert
    \/ CancelCall
    \/ Forward
    \/ Recv
    \/ Started
    \/ Ack
    \/ UiFirstQuote
    \/ UiQuotes
    \/ Send

CancelSpec == Init /\ [][CancelNext]_vars

(* C25: client cancel.  After OrderBook.cancel(oid), a command with msg    *)
(* 'cancel' and that oid has been put on the local queue (it is queued,    *)
(* on its way to the router, or received by it), and the call has changed  *)
(* neither _sent_orders nor _confirmed_orders.                             *)
C25_CancelEnqueues ==
    /\ [](\A s \in MainSessions : \A i \in DOMAIN cancel_calls[s] :
            \E j \in DOMAIN PipelineSeq(s) :
                /\ PipelineSeq(s)[j].msg = "cancel"
                /\ PipelineSeq(s)[j].oid = cancel_calls[s][i])
    /\ [][\A s \in MainSessions :
             cancel_calls'[s] # cancel_calls[s] =>
                 /\ sent_orders'[s] = sent_orders[s]
                 /\ confirmed_orders'[s] = confirmed_orders[s]]_vars

----------------------------------------------------------------------------
(* C26: cancellation.  Once the scope of the router is cancelled, every    *)
(* worker the router started eventually is no longer running, also a       *)
(* worker that waits for the next quote batch of its shielded stream.      *)
C26_CancelTearsDown ==
    \A s \in MainSessions : (rpc[s] = "cancelled") ~> (Live(s) = {})

\* the scope was cancelled while a worker that has had a batch, and no order
\* to evaluate, was waiting for the next
C26_Witness ==
    /\ rpc["ui1"] = "cancelled"
    /\ accepted = <<>>
    /\ \E k \in Keys : wpc["ui1"][k] = "cancelled" /\ ticklog["ui1"][k] # <<>>

----------------------------------------------------------------------------
(* The evaluation of the ticks, told from the histories: accepted[i] is    *)
(* the order with cmd object i, ticklog[s][k][t] the t-th tick delivered   *)
(* to the worker (s, k), fired[j].tick the tick the worker was evaluating  *)
(* when it emitted fired[j].                                               *)

\* how many ticks the running worker (s, k) has evaluated to the end
FinishedTicks(s, k) ==
    IF wpc[s][k] = "send" THEN Evaluated(s, k) - 1 ELSE Len(ticklog[s][k])

\* order i was emitted in the evaluation of tick t of its worker
FiredAt(i, t) == \E j \in DOMAIN fired : fired[j].cmd = i /\ fired[j].tick = t

FiredBefore(i, t) == \E j \in DOMAIN fired : fired[j].cmd = i /\ fired[j].tick < t

FiredAfter(i, t) == \E j \in DOMAIN fired : fired[j].cmd = i /\ fired[j].tick > t

\* order i was in its bucket when the evaluation of tick t began: it was
\* appended before, and not removed in the evaluation of an earlier tick
InSnapshot(i, t) == accepted[i].at[accepted[i].session] < t /\ ~FiredBefore(i, t)

(* C27: snapshot evaluation.  When a worker has finished the evaluation of *)
(* a tick of price p that is not below zero, every order that was in the   *)
(* bucket when the evaluation began and whose predicate holds at p has     *)
(* been emitted in that evaluation and is removed, and every such order    *)
(* whose predicate does not hold at p was not emitted and is still pending *)
(* after it.                                                               *)
C27_SnapshotEvaluation ==
    \A i \in DOMAIN accepted :
        LET a == accepted[i]
            s == a.session
            k == a.key
        IN  wpc[s][k] \in {"stream", "send"} =>
                \A t \in 1..FinishedTicks(s, k) :
                    LET p == ticklog[s][k][t]
                    IN  (~Skipped(p) /\ InSnapshot(i, t)) =>
                            IF Pred(a.pred, p)
                            THEN FiredAt(i, t) /\ Occurs(i) = {}
                            ELSE ~FiredAt(i, t) /\ (Occurs(i) # {} \/ FiredAfter(i, t))

\* a tick evaluated over two orders, of which one was emitted and removed
\* and the other, second in the bucket, is still pending
C27_Witness ==
    \E i, j \in DOMAIN accepted :
        /\ i < j
        /\ accepted[i].key = accepted[j].key
        /\ wpc[accepted[i].session][accepted[i].key] = "stream"
        /\ \E t \in 1..FinishedTicks(accepted[i].session, accepted[i].key) :
              /\ InSnapshot(i, t) /\ InSnapshot(j, t)
              /\ FiredAt(i, t)
              /\ ~Pred(accepted[j].pred, ticklog[accepted[i].session][accepted[i].key][t])
              /\ Occurs(i) = {}
              /\ Occurs(j) # {}

\* the trigger events on the ctx of session s, and the emissions of its workers
TriggerEvents(s) == SelectSeq(out[s], IsTrigger)

FiredOf(s) == SelectSeq(fired, LAMBDA f : f.session = s)

(* C28: first satisfying tick.  An order is emitted in the evaluation of   *)
(* the first tick, of those evaluated after it was appended and each tick  *)
(* of a batch counted on its own, that is not below zero and satisfies its *)
(* predicate: no such tick is passed over, the emission is at such a tick  *)
(* and none came before it; the order is then removed and no later tick    *)
(* emits it again; the event's trigger_price is the price of that tick.    *)
C28_FirstSatisfyingTick ==
    /\ \A j \in DOMAIN fired :
          LET f == fired[j]
              a == accepted[f.cmd]
              log == ticklog[f.session][f.worker]
          IN  /\ f.tick > a.at[f.session]
              /\ ~Skipped(log[f.tick]) /\ Pred(a.pred, log[f.tick])
              /\ \A t \in (a.at[f.session] + 1)..(f.tick - 1) :
                    Skipped(log[t]) \/ ~Pred(a.pred, log[t])
              /\ Occurs(f.cmd) = {}
              /\ \A n \in DOMAIN fired : fired[n].cmd = f.cmd => n = j
    /\ \A i \in DOMAIN accepted :
          LET a == accepted[i]
          IN  wpc[a.session][a.key] \in {"stream", "send"} =>
                 \A t \in (a.at[a.session] + 1)..FinishedTicks(a.session, a.key) :
                     (~Skipped(ticklog[a.session][a.key][t])
                        /\ Pred(a.pred, ticklog[a.session][a.key][t]))
                     => (FiredAt(i, t) \/ FiredBefore(i, t))
    /\ \A s \in MainSessions :
          /\ Len(TriggerEvents(s)) = Len(FiredOf(s))
          /\ \A j \in DOMAIN FiredOf(s) :
                /\ TriggerEvents(s)[j].oid = FiredOf(s)[j].oid
                /\ TriggerEvents(s)[j].trigger_price =
                      ticklog[s][FiredOf(s)[j].worker][FiredOf(s)[j].tick]

\* an order emitted at a tick with more of its batch to come, whose next
\* tick satisfies the order's predicate too and has been evaluated
C28_Witness ==
    \E j \in DOMAIN fired :
        LET f == fired[j]
            log == ticklog[f.session][f.worker]
        IN  /\ f.left > 0
            /\ wpc[f.session][f.worker] = "stream"
            /\ ~Skipped(log[f.tick + 1])
            /\ Pred(accepted[f.cmd].pred, log[f.tick + 1])
            /\ log[f.tick + 1] # log[f.tick]

(* C29: trigger event content.  Every trigger event on ctx carries the oid *)
(* of the order that was emitted, as 'name' the direction that mk_check    *)
(* returned when the order was built, and as 'trigger_price' the price of  *)
(* the tick at which the order's predicate was true.                       *)
C29_EventContent ==
    \A s \in MainSessions :
        /\ Len(TriggerEvents(s)) = Len(FiredOf(s))
        /\ \A j \in DOMAIN TriggerEvents(s) :
              LET e == TriggerEvents(s)[j]
                  f == FiredOf(s)[j]
                  a == accepted[f.cmd]
              IN  /\ e.oid = a.oid
                  /\ e.name = a.name
                  /\ e.name = mk_check(e.price, a.last).name
                  /\ e.trigger_price = f.price
                  /\ Pred(a.pred, e.trigger_price)

\* a trigger event for a tick at another price than the one asked for
C29_Witness ==
    \E s \in MainSessions : \E j \in DOMAIN TriggerEvents(s) :
        /\ TriggerEvents(s)[j].trigger_price # TriggerEvents(s)[j].price
        /\ TriggerEvents(s)[j].name = "down"

\* the ticks not below zero among those the worker (s, k) has begun to evaluate
WrittenTicks(s, k) == {t \in 1..Evaluated(s, k) : ~Skipped(ticklog[s][k][t])}

\* the latest of them
LatestTick(s, k) == CHOOSE t \in WrittenTicks(s, k) : \A u \in WrittenTicks(s, k) : u <= t

(* C30: the last price a predicate is built against.  In the step in which *)
(* the router appends an order, the order's predicate and name are those   *)
(* of mk_check(cmd['price'], L), with L the value of lasts[(brokers[0],    *)
(* symbol)] in that step; and L is the price of the latest tick not below  *)
(* zero that the key's worker has taken up, if there is one, whether or    *)
(* not the worker was started for this command.                            *)
C30_PredicateFromCurrentLast ==
    [][\A s \in MainSessions :
          (Len(accepted') = Len(accepted) + 1 /\ accepted'[Len(accepted')].session = s) =>
              LET cmd == cmds'[Len(cmds')]
                  key == KeyOf(cmd)
                  entry == orders'[key][Len(orders'[key])]
                  L == lasts[key]
                  chk == mk_check(cmd.price, L)
              IN  /\ chk # None
                  /\ entry.oid = cmd.oid
                  /\ entry.pred = chk.pred
                  /\ entry.name = chk.name
                  /\ WrittenTicks(s, key) # {} => L = ticklog[s][key][LatestTick(s, key)]]_vars

\* the order of the command that a worker was started for, built after that
\* worker had taken up two ticks of different prices
C30_Witness ==
    /\ accepted # <<>>
    /\ nstart[accepted[1].key] = 1
    /\ accepted[1].oid = routed["ui1"][1].oid
    /\ accepted[1].at["ui1"] = 2
    /\ ticklog["ui1"][accepted[1].key][1] # ticklog["ui1"][accepted[1].key][2]
    /\ accepted[1].last = ticklog["ui1"][accepted[1].key][2]
    /\ accepted[1].pred = mk_check(cmds[1].price, accepted[1].last).pred

----------------------------------------------------------------------------
(* One session with feeds that open and quote prices that are numbers.     *)

PlainAlert ==
    /\ nsub < MaxCmds
    /\ \E symbol \in Symbols, price \in Prices :
          Alert("ui1", OidNames[nsub + 1], symbol, price)

PlainFirstQuote == \E k \in Keys, last \in Prices : WorkerFirstQuote("ui1", k, last)

PlainQuotes ==
    \E k \in Keys, ticks \in Batches(Prices) :
        /\ TotalTicks + Len(ticks) <= MaxTicks
        /\ WorkerQuotes("ui1", k, k[2], ticks)

PlainNext ==
    \/ PlainAlert
    \/ Forward
    \/ Recv
    \/ Started
    \/ Ack
    \/ PlainFirstQuote
    \/ PlainQuotes
    \/ Send

PlainSpec == Init /\ [][PlainNext]_vars

\* the key of the first broker of a command's list
FirstKey(cmd) == <<cmd.brokers[1], cmd.symbol>>

\* the keys that some command received by a router has as its first
RoutedKeys ==
    UNION {{FirstKey(routed[s][i]) : i \in DOMAIN routed[s]} : s \in Sessions}

(* C31: single broker.  A command with brokers [b1, b2, ...] touches the   *)
(* key (b1, symbol) only: every order stands in the bucket of the first    *)
(* broker of its command, and a key has a worker, a last price or a bucket *)
(* only if it is the first key of a command the router received, with at   *)
(* most one worker started for it.                                         *)
C31_SingleBroker ==
    /\ \A k \in DOMAIN orders : \A j \in DOMAIN orders[k] :
          FirstKey(cmds[orders[k][j].cmd]) = k
    /\ \A i \in DOMAIN accepted : accepted[i].key = FirstKey(cmds[i])
    /\ \A k \in Keys :
          /\ nstart[k] <= 1
          /\ k \notin RoutedKeys =>
                /\ nstart[k] = 0
                /\ k \notin DOMAIN orders
                /\ k \notin DOMAIN lasts
                /\ \A s \in Sessions : wpc[s][k] = "none"

\* an order of a command for two brokers has been emitted, and the key of
\* the second broker has no bucket, no last price and no worker
C31_Witness ==
    \E j \in DOMAIN fired :
        /\ cmds[fired[j].cmd].brokers = <<"ib", "B">>
        /\ fired[j].key = <<"ib", "X">>
        /\ <<"B", "X">> \notin DOMAIN orders
        /\ <<"B", "X">> \notin DOMAIN lasts
        /\ nstart[<<"B", "X">>] = 0

----------------------------------------------------------------------------
(* Three commands, the second for a key without worker, the third for the  *)
(* key of the first.                                                       *)

HolSymbols == <<SymbolB, SymbolIb, SymbolB>>

HolAlert ==
    /\ nsub < Len(HolSymbols)
    /\ \E price \in Prices : Alert("ui1", OidNames[nsub + 1], HolSymbols[nsub + 1], price)

HolNext ==
    \/ HolAlert
    \/ Forward
    \/ Recv
    \/ Started
    \/ Ack
    \/ PlainFirstQuote
    \/ PlainQuotes
    \/ Send

HolSpec == Init /\ [][HolNext]_vars

\* the acks on the ctx of session s
Acks(s) == SelectSeq(out[s], LAMBDA e : e.msg = "ack")

(* C32: head-of-line blocking.  In a step taken while the router waits for *)
(* the first price of a worker it has started, the router receives no      *)
(* command, appends no order and sends no ack; and it leaves that wait     *)
(* only in the step in which that worker stores its first quote.  So for   *)
(* as long as the feed delivers no first quote, neither the command nor    *)
(* any command behind it is acknowledged.                                  *)
C32_HeadOfLineBlocking ==
    [][\A s \in MainSessions :
          rpc[s] = "start" =>
              /\ routed'[s] = routed[s]
              /\ accepted' = accepted
              /\ Acks(s)' = Acks(s)
              /\ rpc'[s] # "start" =>
                    /\ wpc[s][FirstKey(rcmd[s])] = "open"
                    /\ wpc'[s][FirstKey(rcmd[s])] = "stream"
                    /\ FirstKey(rcmd[s]) \notin DOMAIN lasts
                    /\ FirstKey(rcmd[s]) \in DOMAIN lasts']_vars

\* the router waits for the first quote of ("ib", "X") while the command
\* behind it is for ("B", "X"), whose worker runs and has had ticks
C32_Witness ==
    /\ rpc["ui1"] = "start"
    /\ FirstKey(rcmd["ui1"]) = <<"ib", "X">>
    /\ cmd_stream["ui1"] # <<>>
    /\ FirstKey(Head(cmd_stream["ui1"])) = <<"B", "X">>
    /\ wpc["ui1"][<<"B", "X">>] = "stream"
    /\ ticklog["ui1"][<<"B", "X">>] # <<>>
    /\ Len(Acks("ui1")) = 1

----------------------------------------------------------------------------
(* Two sessions: two stream_and_route tasks in the process of the one book *)
(* that get_book() hands out.                                              *)

DuoAlert ==
    /\ nsub < MaxCmds
    /\ \E s \in Sessions, price \in Prices :
          Alert(s, OidNames[nsub + 1], SymbolB, price)

DuoForward == \E s \in Sessions : SendOrderCmds(s)

DuoRecv == \E s \in Sessions : RouterRecv(s)

DuoStarted == \E s \in Sessions : RouterStarted(s)

DuoAck == \E s \in Sessions : RouterAck(s)

DuoFirstQuote == \E s \in Sessions : WorkerFirstQuote(s, ScenKey, 1)

DuoQuotes ==
    \E s \in Sessions, ticks \in Batches(Prices) :
        /\ TotalTicks + Len(ticks) <= MaxTicks
        /\ WorkerQuotes(s, ScenKey, "X", ticks)

DuoSend == \E s \in Sessions : WorkerSend(s, ScenKey)

DuoNext ==
    \/ DuoAlert
    \/ DuoForward
    \/ DuoRecv
    \/ DuoStarted
    \/ DuoAck
    \/ DuoFirstQuote
    \/ DuoQuotes
    \/ DuoSend

DuoSpec == Init /\ [][DuoNext]_vars

\* the sessions whose router has started a worker for key k
WorkersOf(k) == {s \in Sessions : wpc[s][k] # "none"}

(* C33: at most one worker under concurrent sessions.  With two router     *)
(* loops on the shared book, no key ever has the workers of two sessions,  *)
(* and no order is emitted twice.                                          *)
C33_OneWorkerAcrossSessions ==
    /\ \A k \in Keys : Cardinality(WorkersOf(k)) <= 1
    /\ \A i, j \in DOMAIN fired : fired[i].cmd = fired[j].cmd => i = j

----------------------------------------------------------------------------
(* Feeds whose stream can come to an end. *)

FeedEnd == \E k \in Keys : WorkerStreamEnd("ui1", k)

StopNext ==
    \/ UiAlert
    \/ Forward
    \/ Recv
    \/ Started
    \/ Ack
    \/ UiFirstQuote
    \/ UiQuotes
    \/ FeedEnd
    \/ Send

StopSpec == Init /\ [][StopNext]_vars

\* a worker that evaluates the bucket of key k is running
Running(k) == \E s \in Sessions : wpc[s][k] \in {"stream", "send"}

(* C34: every acknowledged order is being evaluated.  In the step in which *)
(* the router appends an order to orders[key], to acknowledge it next, a   *)
(* worker for key is running (as it must be if every pending order has a   *)
(* running worker in every state).                                         *)
C34_AckedOrderEvaluated ==
    [][\A k \in Keys :
          (k \in DOMAIN orders' /\ Len(orders'[k]) > Len(Execs(orders, k))) =>
              Running(k)']_vars

----------------------------------------------------------------------------
(* C35: no spurious events.  Every event put on the ctx of a session is an *)
(* ack, of nothing but msg and oid, for the oid of a command the session's *)
(* router has received, or a trigger event for the oid of an order that    *)
(* was appended to book.orders before, at a trigger_price of which the     *)
(* order's predicate is true.                                              *)
C35_NoSpuriousEvents ==
    [][\A s \in MainSessions :
          out'[s] # out[s] =>
              /\ Len(out'[s]) = Len(out[s]) + 1
              /\ SubSeq(out'[s], 1, Len(out[s])) = out[s]
              /\ LET e == out'[s][Len(out'[s])]
                 IN  IF e.msg = "ack"
                     THEN /\ DOMAIN e = {"msg", "oid"}
                          /\ \E i \in DOMAIN routed[s] : routed[s][i].oid = e.oid
                     ELSE \E i \in DOMAIN accepted :
                             /\ accepted[i].oid = e.oid
                             /\ accepted[i].session = s
                             /\ ~Skipped(e.trigger_price)
                             /\ Pred(accepted[i].pred, e.trigger_price)]_vars

\* a session that has been sent the ack and the trigger event of an order
C35_Witness ==
    \E j, n \in DOMAIN out["ui1"] :
        /\ out["ui1"][j].msg = "ack"
        /\ out["ui1"][n].msg # "ack"
        /\ out["ui1"][j].oid = out["ui1"][n].oid

----------------------------------------------------------------------------
(* C36: the client's state on overflow.  Every command recorded in         *)
(* _sent_orders has been put on the local queue: it is queued, on its way  *)
(* to the router or received by it; so a call of alert() that fails on a   *)
(* full queue has recorded nothing.                                        *)
C36_SentWasEnqueued ==
    \A s \in MainSessions : \A oid \in DOMAIN sent_orders[s] :
        \E j \in DOMAIN PipelineSeq(s) : PipelineSeq(s)[j] = sent_orders[s][oid]

----------------------------------------------------------------------------
\* the KeyErrors raised to the callers of the OrderBook of session s
KeyErrors(s) == SelectSeq(raised[s], LAMBDA e : e.exc = "KeyError")

(* C37: confirmed within sent.  In every state the keys of                 *)
(* _confirmed_orders are keys of _sent_orders; a key enters                *)
(* _confirmed_orders only if it is a key of _sent_orders, and the call of  *)
(* on_fill that fails names an oid that was not submitted and changes      *)
(* neither map.                                                            *)
C37_ConfirmedWithinSent ==
    /\ [](\A s \in Sessions : DOMAIN confirmed_orders[s] \subseteq DOMAIN sent_orders[s])
    /\ [][\A s \in Sessions :
             /\ \A oid \in DOMAIN confirmed_orders'[s] \ DOMAIN confirmed_orders[s] :
                   oid \in DOMAIN sent_orders[s]
             /\ KeyErrors(s)' # KeyErrors(s) =>
                   /\ KeyErrors(s)'[Len(KeyErrors(s)')].oid \notin DOMAIN sent_orders[s]
                   /\ sent_orders'[s] = sent_orders[s]
                   /\ confirmed_orders'[s] = confirmed_orders[s]]_vars

\* on_fill has succeeded for a submitted oid and failed for another
C37_Witness ==
    /\ confirmed_orders["ui1"] # EmptyDict
    /\ KeyErrors("ui1") # <<>>
    /\ KeyErrors("ui1")[1].oid \notin DOMAIN sent_orders["ui1"]

----------------------------------------------------------------------------
\* the entries of dict d are entries of dict e
Within(d, e) == \A o \in DOMAIN d : o \in DOMAIN e /\ e[o] = d[o]

(* C38: client history is additive.  No step removes a key from            *)
(* _sent_orders or from _confirmed_orders; a step that changes             *)
(* _confirmed_orders sets the entry of one submitted oid to the command    *)
(* _sent_orders holds for it and keeps every other entry of both maps; and *)
(* on_fill for an oid whose confirmed entry is that command already leaves *)
(* the whole state as it is.                                               *)
C38_HistoryAdditive ==
    /\ [][\A s \in Sessions :
             /\ DOMAIN sent_orders[s] \subseteq DOMAIN sent_orders'[s]
             /\ DOMAIN confirmed_orders[s] \subseteq DOMAIN confirmed_orders'[s]
             /\ confirmed_orders'[s] # confirmed_orders[s] =>
                   /\ sent_orders'[s] = sent_orders[s]
                   /\ \E oid \in DOMAIN sent_orders[s] :
                         /\ DOMAIN confirmed_orders'[s] =
                               DOMAIN confirmed_orders[s] \cup {oid}
                         /\ confirmed_orders'[s][oid] = sent_orders[s][oid]
                         /\ \A o \in DOMAIN confirmed_orders[s] \ {oid} :
                               confirmed_orders'[s][o] = confirmed_orders[s][o]]_vars
    /\ [](\A s \in Sessions : \A oid \in DOMAIN confirmed_orders[s] :
             /\ Within(confirmed_orders[s], sent_orders[s])
             /\ ENABLED (OnFill(s, oid) /\ UNCHANGED vars))

\* on_fill has confirmed every alert submitted, after events were received
C38_Witness ==
    /\ Cardinality(DOMAIN confirmed_orders["ui1"]) = MaxCmds
    /\ Within(sent_orders["ui1"], confirmed_orders["ui1"])
    /\ seen["ui1"] > 0
====
